---- MODULE Spec2Model ----
(***************************************************************************)
(* Model of the IP pattern parsing and matching engine of                  *)
(* institutional-usage (src/ip_parser.py): parse_ip, process_ips,          *)
(* is_ip_in_range and is_ip_match; of the lookup of an institution by its  *)
(* name (src/usage_report.py main, src/log_processor.py count_views); and  *)
(* of the report sheet kept by update_file (src/usage_report.py).          *)
(*                                                                         *)
(* A Python str is a sequence of one-character strings.  A Python          *)
(* exception is a value: parse_ip yields [kind |-> "ValueError"], the      *)
(* matcher yields "ValueError" or "IndexError" instead of "True"/"False".  *)
(***************************************************************************)
EXTENDS Integers, Sequences, FiniteSets, TLC

VARIABLES
    pc,         \* position of the run: see Init
    insts_df,   \* the raw institution table: one row per institution
    ip_list,    \* the 'IP Addresses' column once process_ips has written it
    err,        \* the exception that ended process_ips, "" when none
    inst,       \* row whose list the matcher was called with (0: none)
    client_ip,  \* the ip argument of is_ip_match
    matched,    \* outcome of is_ip_match: "True", "False", an exception name
    ip_str,     \* argument of a direct call of parse_ip
    parsed,     \* its result
    reparsed,   \* result of parse_ip on the result written back as text
    ips_df,     \* the table the lookup reads: Institution, Abbreviation
    inst_name,  \* the name asked for
    inst_ips,   \* the rows the lookup selected
    found,      \* what the caller got: "True", "False", an exception name
    sheet,      \* the institution's sheet of the report file
    submitted   \* every row handed to update_file so far

lookupVars == <<ips_df, inst_name, inst_ips, found>>

reportVars == <<sheet, submitted>>

vars == <<pc, insts_df, ip_list, err, inst, client_ip, matched,
          ip_str, parsed, reparsed, lookupVars, reportVars>>

----------------------------------------------------------------------------
(* Characters and the str methods the code uses.                           *)

Digits == <<"0", "1", "2", "3", "4", "5", "6", "7", "8", "9">>

IsDigit(c) == c \in {"0", "1", "2", "3", "4", "5", "6", "7", "8", "9"}

DigitVals ==
    [c \in {"0", "1", "2", "3", "4", "5", "6", "7", "8", "9"} |->
        (CHOOSE i \in 1..10 : Digits[i] = c) - 1]

DigitVal(c) == DigitVals[c]

Spaces == {" ", "\t", "\r"}

IsSpace(c) == c \in Spaces

\* the characters re.sub(r'[^0-9.*-]', '', ip_str) keeps
Keep(c) == IsDigit(c) \/ c \in {".", "*", "-"}

\* list(f): the values of a comprehension, computed once
List(f) == f \o <<>>

\* the indices of s, in order
Indices(s) == List([i \in 1..Len(s) |-> i])

\* s without the characters of chars at its two ends
StripChars(s, chars) ==
    LET kept == SelectSeq(Indices(s), LAMBDA i : s[i] \notin chars)
    IN  IF kept = <<>> THEN <<>> ELSE SubSeq(s, kept[1], kept[Len(kept)])

\* str.strip() and str.strip(".")
Strip(s) == StripChars(s, Spaces)

StripDots(s) == StripChars(s, {"."})

\* s without the characters of chars at its left end
LStrip(s, chars) ==
    LET kept == SelectSeq(Indices(s), LAMBDA i : s[i] \notin chars)
    IN  IF kept = <<>> THEN <<>> ELSE SubSeq(s, kept[1], Len(s))

\* str.split(sep): "a..b" gives ["a", "", "b"], "" gives [""]
Split(s, sep) ==
    LET cuts == <<0>> \o SelectSeq(Indices(s), LAMBDA i : s[i] = sep)
                     \o <<Len(s) + 1>>
    IN  List([k \in 1..(Len(cuts) - 1) |-> SubSeq(s, cuts[k] + 1, cuts[k + 1] - 1)])

RECURSIVE Join(_, _)
Join(parts, sep) ==
    IF parts = <<>> THEN <<>>
    ELSE IF Len(parts) = 1 THEN parts[1]
    ELSE parts[1] \o <<sep>> \o Join(Tail(parts), sep)

Contains(s, c) == \E i \in 1..Len(s) : s[i] = c

AllDigits(s) == \A i \in 1..Len(s) : IsDigit(s[i])

RECURSIVE DigitsVal(_)
DigitsVal(s) ==
    IF s = <<>> THEN 0
    ELSE 10 * DigitsVal(SubSeq(s, 1, Len(s) - 1)) + DigitVal(s[Len(s)])

\* int(tok): surrounding whitespace and one sign are accepted; anything
\* else that is not a non-empty run of digits raises ValueError
PyInt(tok) ==
    LET t == Strip(tok)
        signed == t # <<>> /\ Head(t) \in {"-", "+"}
        d == IF signed THEN Tail(t) ELSE t
    IN  IF d # <<>> /\ AllDigits(d)
        THEN [ok |-> TRUE,
              val |-> IF signed /\ Head(t) = "-" THEN 0 - DigitsVal(d)
                      ELSE DigitsVal(d)]
        ELSE [ok |-> FALSE, val |-> 0]

RECURSIVE NatStr(_)
NatStr(n) ==
    IF n < 10 THEN <<Digits[n + 1]>>
    ELSE NatStr(n \div 10) \o <<Digits[(n % 10) + 1]>>

\* str(n)
PyStr(n) == IF n < 0 THEN <<"-">> \o NatStr(0 - n) ELSE NatStr(n)

----------------------------------------------------------------------------
(* parse_ip                                                                *)

IsOctetDigits(tok) == Len(tok) \in 1..3 /\ AllDigits(tok)

IsDottedQuad(q) ==
    LET p == Split(q, ".")
    IN  Len(p) = 4 /\ \A i \in 1..4 : IsOctetDigits(p[i])

\* re.match(ip_range_pattern, ip_str)
MatchIpRangePattern(s) ==
    LET halves == Split(s, "-")
    IN  Len(halves) = 2 /\ IsDottedQuad(halves[1]) /\ IsDottedQuad(halves[2])

ValueError == [kind |-> "ValueError"]

\* [str(int(item)) for item in s.split('.')], or the ValueError of int()
NormalizeParts(s) ==
    LET p == Split(s, ".")
        n == List([i \in 1..Len(p) |-> PyInt(p[i])])
    IN  IF \E i \in 1..Len(p) : ~n[i].ok
        THEN [ok |-> FALSE, parts |-> <<>>]
        ELSE [ok |-> TRUE, parts |-> List([i \in 1..Len(p) |-> PyStr(n[i].val)])]

\* the branch for an exact start address to an exact end address
WholeRange(s) ==
    LET halves == Split(s, "-")
        start_parts == NormalizeParts(halves[1])
        end_parts == NormalizeParts(halves[2])
    IN  [kind |-> "dict",
         start |-> Join(start_parts.parts, "."),
         end |-> Join(end_parts.parts, ".")]

\* one dot-separated part of the octet-wise form: its start and end octet
OctetPart(part) ==
    IF Contains(part, "-")
    THEN LET se == Split(part, "-")
             n == List([i \in 1..Len(se) |-> PyInt(se[i])])
         IN  IF Len(se) # 2 \/ ~n[1].ok \/ ~n[2].ok
             THEN [ok |-> FALSE, start |-> <<>>, end |-> <<>>]
             ELSE [ok |-> TRUE, start |-> PyStr(n[1].val), end |-> PyStr(n[2].val)]
    ELSE IF part = <<"*">>
    THEN [ok |-> TRUE, start |-> <<"0">>, end |-> <<"2", "5", "5">>]
    ELSE LET n == PyInt(part)
         IN  IF ~n.ok
             THEN [ok |-> FALSE, start |-> <<>>, end |-> <<>>]
             ELSE [ok |-> TRUE, start |-> PyStr(n.val), end |-> PyStr(n.val)]

\* the branch for ranges within octets
OctetWise(s) ==
    LET parts == Split(s, ".")
        o == List([i \in 1..Len(parts) |-> OctetPart(parts[i])])
    IN  IF \E i \in 1..Len(parts) : ~o[i].ok
        THEN ValueError
        ELSE [kind |-> "dict",
              start |-> Join(List([i \in 1..Len(parts) |-> o[i].start]), "."),
              end |-> Join(List([i \in 1..Len(parts) |-> o[i].end]), ".")]

\* the branch for a single address
SingleAddress(s) ==
    LET n == NormalizeParts(s)
    IN  IF n.ok THEN [kind |-> "str", ip |-> Join(n.parts, ".")]
        ELSE ValueError

\* the cleaning every input goes through
Clean(raw) == StripDots(Strip(SelectSeq(Strip(raw), Keep)))

\* parse_ip trying the octet-wise form before the whole-address form
parse_ip_octet_first(raw) ==
    LET s == Clean(raw)
    IN  IF Contains(s, "-") \/ Contains(s, "*") THEN OctetWise(s)
        ELSE IF MatchIpRangePattern(s) THEN WholeRange(s)
        ELSE SingleAddress(s)

parse_ip(raw) ==
    LET s == Clean(raw)
    IN  IF MatchIpRangePattern(s) THEN WholeRange(s)
        ELSE IF Contains(s, "-") \/ Contains(s, "*") THEN OctetWise(s)
        ELSE SingleAddress(s)

----------------------------------------------------------------------------
(* process_ips                                                             *)

\* the search without its "^": a digit anywhere in the line
LineFilter_unanchored(item) == \E i \in 1..Len(item) : IsDigit(item[i])

\* the search as a test for a line that is not blank
LineFilter_nonblank(item) == Strip(item) # <<>>

\* re.search(r'^\s*\d+[\d\.\-\*\s]*', item): after leading whitespace the
\* line starts with a digit
LineFilter(item) ==
    LET t == LStrip(item, Spaces)
    IN  t # <<>> /\ IsDigit(Head(t))

\* [parse_ip(item) for item in cell.split("\n") if re.search(...)], or the
\* exception parse_ip raised
ProcessCell(cell) ==
    LET Parsed(items) == List([i \in 1..Len(items) |-> parse_ip(items[i])])
        Result(out) ==
            IF \E i \in 1..Len(out) : out[i].kind = "ValueError"
            THEN [ok |-> FALSE, items |-> <<>>]
            ELSE [ok |-> TRUE, items |-> out]
    IN  Result(Parsed(SelectSeq(Split(cell, "\n"), LineFilter)))

\* the loop over the rows: the lists written so far, and the exception
\* that ended the loop if one did
RECURSIVE ProcessRows(_, _, _)
ProcessRows(df, idx, acc) ==
    IF idx > Len(df) THEN [err |-> "", lists |-> acc]
    ELSE LET Row(ips, proxy) ==
                 IF ~ips.ok \/ ~proxy.ok
                 THEN [err |-> "ValueError", lists |-> acc]
                 ELSE ProcessRows(df, idx + 1, Append(acc, ips.items \o proxy.items))
         IN  Row(ProcessCell(df[idx].IP_Addresses), ProcessCell(df[idx].Proxy_Server))

process_ips(df) == ProcessRows(df, 1, <<>>)

----------------------------------------------------------------------------
(* is_ip_in_range and is_ip_match                                          *)

\* list(map(int, s.split('.'))), or the ValueError of int()
IntParts(s) ==
    LET p == Split(s, ".")
        n == List([i \in 1..Len(p) |-> PyInt(p[i])])
    IN  IF \E i \in 1..Len(p) : ~n[i].ok
        THEN [ok |-> FALSE, vals |-> <<>>]
        ELSE [ok |-> TRUE, vals |-> List([i \in 1..Len(p) |-> n[i].val])]

\* one octet of the loop: start_parts[i] <= ip_parts[i] <= end_parts[i],
\* a chained comparison that reads end_parts[i] only when the first holds
OctetInRange(ip_parts, start_parts, end_parts, i) ==
    IF Len(start_parts) < i \/ Len(ip_parts) < i THEN "IndexError"
    ELSE IF ~(start_parts[i] <= ip_parts[i]) THEN "False"
    ELSE IF Len(end_parts) < i THEN "IndexError"
    ELSE IF ~(ip_parts[i] <= end_parts[i]) THEN "False"
    ELSE "True"

RECURSIVE InRangeFrom(_, _, _, _)
InRangeFrom(ip_parts, start_parts, end_parts, i) ==
    IF i > 4 THEN "True"
    ELSE LET r == OctetInRange(ip_parts, start_parts, end_parts, i)
         IN  IF r = "True"
             THEN InRangeFrom(ip_parts, start_parts, end_parts, i + 1)
             ELSE r

\* the address as one 32-bit number
Linear(parts) == ((parts[1] * 256 + parts[2]) * 256 + parts[3]) * 256 + parts[4]

\* is_ip_in_range as a test of the 32-bit interval from start to end
is_ip_in_range_linear(ip, start, end) ==
    LET ip_parts == IntParts(ip)
        start_parts == IntParts(start)
        end_parts == IntParts(end)
    IN  IF ~ip_parts.ok \/ ~start_parts.ok \/ ~end_parts.ok THEN "ValueError"
        ELSE IF Len(ip_parts.vals) < 4 \/ Len(start_parts.vals) < 4
                \/ Len(end_parts.vals) < 4 THEN "IndexError"
        ELSE IF Linear(start_parts.vals) <= Linear(ip_parts.vals)
                /\ Linear(ip_parts.vals) <= Linear(end_parts.vals)
        THEN "True" ELSE "False"

is_ip_in_range(ip, start, end) ==
    LET ip_parts == IntParts(ip)
        start_parts == IntParts(start)
        end_parts == IntParts(end)
    IN  IF ~ip_parts.ok \/ ~start_parts.ok \/ ~end_parts.ok THEN "ValueError"
        ELSE InRangeFrom(ip_parts.vals, start_parts.vals, end_parts.vals, 1)

\* one item of the list: a dict is a range, a str is compared as text
ItemMatch(ip, item) ==
    IF item.kind = "dict" THEN is_ip_in_range(ip, item.start, item.end)
    ELSE IF ip = item.ip THEN "True" ELSE "False"

RECURSIVE is_ip_match(_, _)
is_ip_match(ip, list) ==
    IF list = <<>> THEN "False"
    ELSE LET r == ItemMatch(ip, Head(list))
         IN  IF r = "False" THEN is_ip_match(ip, Tail(list)) ELSE r

----------------------------------------------------------------------------
(* Inputs: the lines typed into the cells, the client addresses of the     *)
(* log, the strings parse_ip is called with.                               *)

L_single == <<"1", "0", ".", "0", ".", "0", ".", "1">>  \* "10.0.0.1"

L_whole == <<"1", "0", ".", "0", ".", "0", ".", "1", "-", "1", "0", ".", "7", ".", "0", ".", "5">>  \* "10.0.0.1-10.7.0.5"

L_whole_inv == <<"1", "0", ".", "0", ".", "0", ".", "5", "-", "1", "0", ".", "0", ".", "0", ".", "1">>  \* "10.0.0.5-10.0.0.1"

L_star == <<"1", "0", ".", "*", ".", "0", ".", "1">>  \* "10.*.0.1"

L_octet == <<"1", "0", ".", "0", ".", "1", "-", "5", ".", "1">>  \* "10.0.1-5.1"

L_octet_inv == <<"1", "0", ".", "0", ".", "5", "-", "1", ".", "1">>  \* "10.0.5-1.1"

L_star3 == <<"1", "0", ".", "*", ".", "1">>  \* "10.*.1"

L_short == <<"1", "0", ".", "0", ".", "1">>  \* "10.0.1"

L_gap == <<"1", "0", ".", ".", "0", ".", "1">>  \* "10..0.1"

L_ipv6 == <<"I", "P", "v", "6", ":", " ", ":", ":", "1">>  \* "IPv6: ::1"

L_note == <<"C", ":", " ", "1", "0", ".", "0", ".", "0", ".", "1">>  \* "C: 10.0.0.1"

L_blank == <<>>  \* ""

L_big == <<"3", "0", "0", ".", "0", ".", "0", ".", "1">>  \* "300.0.0.1"

L_zeros == <<"0", "1", "0", ".", "0", ".", "0", ".", "0", "1">>  \* "010.0.0.01"

L_tail == <<" ", "1", "0", ".", "0", ".", "0", ".", "5", " ", "(", "l", "i", "b", ")">>  \* " 10.0.0.5 (lib)"

L_text == <<"n", "/", "a">>  \* "n/a"

\* the lines typed into the cells of the table
Lines ==
    {L_single, L_whole, L_whole_inv, L_star, L_octet,
     L_star3, L_gap, L_ipv6, L_note, L_text}

\* further lines parse_ip is called with
MoreLines == {L_octet_inv, L_short, L_blank, L_big, L_zeros, L_tail}

IP_1 == <<"1", "0", ".", "0", ".", "0", ".", "1">>  \* "10.0.0.1"

IP_mid == <<"1", "0", ".", "9", ".", "0", ".", "1">>  \* "10.9.0.1"

IP_oct == <<"1", "0", ".", "0", ".", "3", ".", "1">>  \* "10.0.3.1"

IP_zero == <<"0", "1", "0", ".", "0", ".", "0", ".", "1">>  \* "010.0.0.1"

IP_short == <<"1", "0", ".", "0", ".", "1">>  \* "10.0.1"

IP_box == <<"1", "0", ".", "0", ".", "1", ".", "1">>  \* "10.0.1.1"

IP_long == <<"1", "0", ".", "0", ".", "0", ".", "1", ".", "9">>  \* "10.0.0.1.9"

IP_text == <<"1", "0", ".", "0", ".", "x", ".", "1">>  \* "10.0.x.1"

ClientIps == {IP_1, IP_mid, IP_oct, IP_zero, IP_short, IP_box, IP_long, IP_text}
\* Bounds
MaxLines == 2   \* lines typed into the cells of the whole table
MaxTokens == 5  \* tokens of a generated pattern

\* the tokens tried in one octet position of a pattern
OctetToks ==
    {<<"0">>,
     <<"1">>,
     <<"0", "1">>,
     <<"2", "5", "5">>,
     <<"3", "0", "0">>,
     <<"1", "0", "0", "0">>,
     <<"*">>,
     <<"1", "-", "5">>,
     <<"5", "-", "1">>,
     <<>>,
     <<"1", "-", "2", "-", "3">>}

\* the octets tried in the addresses of a whole-address range
RangeOctets == {<<"0">>, <<"1">>, <<"0", "5">>, <<"5">>}

Prefix10 == <<"1", "0", ".">>

\* "10.<t>.0.<u>"
PatternInputs ==
    {Prefix10 \o t \o <<".", "0", ".">> \o u : t \in OctetToks, u \in OctetToks}

\* "10.0.<t>.<u>"
RangeAddrs ==
    {Prefix10 \o <<"0", ".">> \o t \o <<".">> \o u :
        t \in RangeOctets \cup {<<"1", "0", "0", "0">>}, u \in RangeOctets}

\* "<a>-<b>"
RangeInputs == {a \o <<"-">> \o b : a \in RangeAddrs, b \in RangeAddrs}

\* patterns of one to MaxTokens tokens, each "7" or "*"
TokenInputs ==
    UNION {{Join(f, ".") : f \in [1..n -> {<<"7">>, <<"*">>}]} : n \in 1..MaxTokens}

ParseInputs == Lines \cup MoreLines \cup PatternInputs \cup RangeInputs \cup TokenInputs

\* the institutions of the table
Institutions == <<"UA", "UB">>

\* the table whose cells hold the lines ls, cut at a, b and c: the first
\* institution's addresses and proxies, then the second's
MakeDf(ls, a, b, c) ==
    <<[Institution |-> Institutions[1],
       IP_Addresses |-> Join(SubSeq(ls, 1, a), "\n"),
       Proxy_Server |-> Join(SubSeq(ls, a + 1, b), "\n")],
      [Institution |-> Institutions[2],
       IP_Addresses |-> Join(SubSeq(ls, b + 1, c), "\n"),
       Proxy_Server |-> Join(SubSeq(ls, c + 1, Len(ls)), "\n")]>>

Cuts(n) ==
    {cut \in (0..n) \X (0..n) \X (0..n) : cut[1] <= cut[2] /\ cut[2] <= cut[3]}

----------------------------------------------------------------------------
(* The lookup of an institution by its name.                               *)

UpperCase ==
    <<"A", "B", "C", "D", "E", "F", "G", "H", "I", "J", "K", "L", "M",
      "N", "O", "P", "Q", "R", "S", "T", "U", "V", "W", "X", "Y", "Z">>

LowerCase ==
    <<"a", "b", "c", "d", "e", "f", "g", "h", "i", "j", "k", "l", "m",
      "n", "o", "p", "q", "r", "s", "t", "u", "v", "w", "x", "y", "z">>

\* str.lower() on one character
LowerChar(c) ==
    IF \E i \in 1..26 : UpperCase[i] = c
    THEN LowerCase[CHOOSE i \in 1..26 : UpperCase[i] = c]
    ELSE c

\* str.lower()
Lower(s) == List([i \in 1..Len(s) |-> LowerChar(s[i])])

\* main: ips_df[(ips_df['Institution'].str.lower() == inst_name.strip().lower())
\*              | (ips_df['Abbreviation'].str.lower() == inst_name.strip().lower())]
SelectByNameOrAbbreviation(df, name) ==
    SelectSeq(df, LAMBDA row :
        \/ Lower(row.Institution) = Lower(Strip(name))
        \/ Lower(row.Abbreviation) = Lower(Strip(name)))

\* check_inst_name(inst_ips, inst_name)
check_inst_name(rows) == IF rows = <<>> THEN "False" ELSE "True"

\* count_views of log_processor: ips_df[ips_df['Institution'] == inst_name]
SelectByName(df, name) == SelectSeq(df, LAMBDA row : row.Institution = name)

\* inst_ips.iloc[0]: the first row, or the IndexError of an empty frame
FirstRow(rows) == IF rows = <<>> THEN "IndexError" ELSE "True"

Row_A == [Institution |-> <<"U", "n", "i", " ", "A">>, Abbreviation |-> <<"U", "A">>]

Row_B == [Institution |-> <<"U", "n", "i", " ", "B">>, Abbreviation |-> <<"u", "b">>]

CatalogRows == {Row_A, Row_B}

\* tables of no, one or two institutions
Catalogs == UNION {[1..n -> CatalogRows] : n \in 0..2}

\* "Uni A", "uni a", "UA", "ua", " ua ", "UB", "Uni", "uc"
Requests ==
    {<<"U", "n", "i", " ", "A">>,
     <<"u", "n", "i", " ", "a">>,
     <<"U", "A">>,
     <<"u", "a">>,
     <<" ", "u", "a", " ">>,
     <<"U", "B">>,
     <<"U", "n", "i">>,
     <<"u", "c">>}

----------------------------------------------------------------------------
(* The report sheet: translate_month, sort_and_filter, update_file.  The   *)
(* accented letters of the French abbreviations are written unaccented.    *)

EnglishMonths ==
    <<"Jan", "Feb", "Mar", "Apr", "May", "Jun",
      "Jul", "Aug", "Sep", "Oct", "Nov", "Dec">>

month_translation ==
    <<"Janv", "Fevr", "Mars", "Avr", "Mai", "Juin",
      "Juil", "Aout", "Sept", "Oct", "Nov", "Dec">>

\* f"{month}/{month_translation.get(month, month)}"
translate_month(month) ==
    IF \E i \in 1..12 : EnglishMonths[i] = month
    THEN month \o "/" \o month_translation[CHOOSE i \in 1..12 : EnglishMonths[i] = month]
    ELSE month \o "/" \o month

month_order ==
    <<"Jan/Janv", "Feb/Fevr", "Mar/Mars", "Apr/Avr", "May/Mai", "Jun/Juin",
      "Jul/Juil", "Aug/Aout", "Sep/Sept", "Oct/Oct", "Nov/Nov", "Dec/Dec">>

NaN == "NaN"

\* pd.Categorical(..., categories=month_order): a value that is not a
\* category becomes NaN
Categorical(month) ==
    IF \E i \in 1..12 : month_order[i] = month THEN month ELSE NaN

\* the place of a month in the order; NaN sorts last
MonthCode(month) ==
    IF month = NaN THEN 13 ELSE CHOOSE i \in 1..12 : month_order[i] = month

\* row a sorts strictly before row b by 'Month/Mois', 'Day/Jour', 'Total'
SortsBefore(a, b) ==
    \/ MonthCode(a.Month) < MonthCode(b.Month)
    \/ /\ MonthCode(a.Month) = MonthCode(b.Month)
       /\ \/ a.Day < b.Day
          \/ a.Day = b.Day /\ a.Total < b.Total

\* the sorted rows with one more row put after every row that does not sort
\* after it (the sort is stable)
InsertRow(sorted, row) ==
    LET Place(k) == List(SubSeq(sorted, 1, k) \o <<row>> \o SubSeq(sorted, k + 1, Len(sorted)))
    IN  Place(Len(SelectSeq(sorted, LAMBDA r : ~SortsBefore(row, r))))

\* df.sort_values(by=['Month/Mois', 'Day/Jour', 'Total'])
RECURSIVE sort_values(_)
sort_values(df) ==
    IF df = <<>> THEN <<>>
    ELSE InsertRow(sort_values(SubSeq(df, 1, Len(df) - 1)), df[Len(df)])

SameDay(a, b) == a.Month = b.Month /\ a.Day = b.Day

\* drop_duplicates keeping the first row of each month and day
drop_duplicates_first(df) ==
    LET kept == SelectSeq(Indices(df), LAMBDA i : \A j \in 1..(i - 1) : ~SameDay(df[i], df[j]))
    IN  List([k \in 1..Len(kept) |-> df[kept[k]]])

\* df.drop_duplicates(['Month/Mois', 'Day/Jour'], keep='last')
drop_duplicates(df) ==
    LET kept == SelectSeq(Indices(df), LAMBDA i : \A j \in (i + 1)..Len(df) : ~SameDay(df[i], df[j]))
    IN  List([k \in 1..Len(kept) |-> df[kept[k]]])

\* the 'Month/Mois' column made categorical
Categorized(df) ==
    List([i \in 1..Len(df) |-> [df[i] EXCEPT !.Month = Categorical(df[i].Month)]])

sort_and_filter(df) == drop_duplicates(sort_values(Categorized(df)))

\* no file, or a file without the institution's sheet
NoSheet == [exists |-> FALSE, rows |-> <<>>]

\* what update_file leaves in the sheet
update_file(new_df, old) ==
    IF old.exists
    THEN [exists |-> TRUE, rows |-> sort_and_filter(old.rows \o new_df)]
    ELSE [exists |-> TRUE, rows |-> sort_and_filter(new_df)]

\* months and days of the log, and the totals counted for a day
LogMonths == {"Jan", "Feb"}

LogDays == {1, 2}

MaxTotal == 2

\* the order groupby(['month', 'day', ...]) gives the months: that of text
MonthsAsText ==
    <<"Apr", "Aug", "Dec", "Feb", "Jan", "Jul",
      "Jun", "Mar", "May", "Nov", "Oct", "Sep">>

TextRank(month) == CHOOSE i \in 1..12 : MonthsAsText[i] = month

\* the days of the log with their counts
LogRows == [Month : LogMonths, Day : LogDays, Total : 1..MaxTotal]

GroupedBefore(a, b) ==
    \/ TextRank(a.Month) < TextRank(b.Month)
    \/ a.Month = b.Month /\ a.Day < b.Day

\* the row count_views gives for a day
ReportRow(a) == [Month |-> translate_month(a.Month), Day |-> a.Day, Total |-> a.Total]

\* a report of count_views: one row or two, no two for the same day, in the
\* order of groupby
Reports ==
    {<<ReportRow(a)>> : a \in LogRows}
    \cup {<<ReportRow(p[1]), ReportRow(p[2])>> :
            p \in {q \in LogRows \X LogRows : GroupedBefore(q[1], q[2])}}

----------------------------------------------------------------------------
(* The state machine.  A run either loads a table, builds the lists with   *)
(* process_ips and asks the matcher (pc: loaded, processed or raised,      *)
(* matched), or calls parse_ip on one string and then on its own output    *)
(* (pc: call, parsed, reparsed), or looks an institution up (pc: lookup,   *)
(* checked or counted), or updates the report sheet (pc: report).          *)

None == [kind |-> "None"]

InitTable ==
    /\ pc = "loaded"
    /\ \E n \in 0..MaxLines : \E ls \in [1..n -> Lines] : \E cut \in Cuts(n) :
          insts_df = MakeDf(ls, cut[1], cut[2], cut[3])
    /\ ip_str = <<>>
    /\ ips_df = <<>> /\ inst_name = <<>>

InitCall ==
    /\ pc = "call"
    /\ insts_df = <<>>
    /\ ip_str \in ParseInputs
    /\ ips_df = <<>> /\ inst_name = <<>>

InitLookup ==
    /\ pc = "lookup"
    /\ insts_df = <<>>
    /\ ip_str = <<>>
    /\ ips_df \in Catalogs
    /\ inst_name \in Requests

InitReport ==
    /\ pc = "report"
    /\ insts_df = <<>>
    /\ ip_str = <<>>
    /\ ips_df = <<>> /\ inst_name = <<>>

Init ==
    /\ InitTable \/ InitCall \/ InitLookup \/ InitReport
    /\ inst_ips = <<>>
    /\ found = ""
    /\ sheet = NoSheet
    /\ submitted = {}
    /\ ip_list = <<>>
    /\ err = ""
    /\ inst = 0
    /\ client_ip = <<>>
    /\ matched = ""
    /\ parsed = None
    /\ reparsed = None

\* process_ips(insts_df): every row's list is written in turn; an
\* exception of parse_ip leaves the loop with the rows before it written
ProcessIps ==
    /\ pc = "loaded"
    /\ \E r \in {process_ips(insts_df)} :
          /\ ip_list' = r.lists
          /\ err' = r.err
          /\ pc' = IF r.err = "" THEN "processed" ELSE "raised"
    /\ UNCHANGED <<insts_df, inst, client_ip, matched, ip_str, parsed, reparsed,
                   lookupVars, reportVars>>

\* is_ip_match(ip, ip_networks) for one row of the log and one institution
IsIpMatch ==
    /\ pc = "processed"
    /\ \E i \in 1..Len(ip_list), ip \in ClientIps :
          /\ inst' = i
          /\ client_ip' = ip
          /\ matched' = is_ip_match(ip, ip_list[i])
    /\ pc' = "matched"
    /\ UNCHANGED <<insts_df, ip_list, err, ip_str, parsed, reparsed,
                   lookupVars, reportVars>>

\* the text a result is written back as: the address, or start-end
WriteBack(r) ==
    IF r.kind = "dict" THEN r.start \o <<"-">> \o r.end ELSE r.ip

\* parse_ip(ip_str)
ParseIp ==
    /\ pc = "call"
    /\ parsed' = parse_ip(ip_str)
    /\ pc' = "parsed"
    /\ UNCHANGED <<insts_df, ip_list, err, inst, client_ip, matched, ip_str, reparsed,
                   lookupVars, reportVars>>

\* parse_ip on the text of the result parse_ip gave
Reparse ==
    /\ pc = "parsed"
    /\ parsed.kind # "ValueError"
    /\ reparsed' = parse_ip(WriteBack(parsed))
    /\ pc' = "reparsed"
    /\ UNCHANGED <<insts_df, ip_list, err, inst, client_ip, matched, ip_str, parsed,
                   lookupVars, reportVars>>

\* main of usage_report: the rows of the institution, and check_inst_name
CheckInstName ==
    /\ pc = "lookup"
    /\ inst_ips' = SelectByNameOrAbbreviation(ips_df, inst_name)
    /\ found' = check_inst_name(inst_ips')
    /\ pc' = "checked"
    /\ UNCHANGED <<insts_df, ip_list, err, inst, client_ip, matched, ip_str,
                   parsed, reparsed, ips_df, inst_name, reportVars>>

\* count_views of log_processor: the row of the institution
CountViewsLookup ==
    /\ pc = "lookup"
    /\ inst_ips' = SelectByName(ips_df, inst_name)
    /\ found' = FirstRow(inst_ips')
    /\ pc' = "counted"
    /\ UNCHANGED <<insts_df, ip_list, err, inst, client_ip, matched, ip_str,
                   parsed, reparsed, ips_df, inst_name, reportVars>>

\* update_file(new_df, master_file_path, institution) with one more report
UpdateFile ==
    /\ pc = "report"
    /\ \E new_df \in Reports :
          /\ sheet' = update_file(new_df, sheet)
          /\ submitted' = submitted \cup {new_df[i] : i \in 1..Len(new_df)}
    /\ UNCHANGED <<pc, insts_df, ip_list, err, inst, client_ip, matched, ip_str,
                   parsed, reparsed, lookupVars>>

Next ==
    \/ ProcessIps \/ IsIpMatch \/ ParseIp \/ Reparse
    \/ CheckInstName \/ CountViewsLookup \/ UpdateFile

Spec == Init /\ [][Next]_vars

----------------------------------------------------------------------------
(* What the claims speak of.                                               *)

\* the four octets of a dotted quad written in digits
IsOctetText(tok) == tok # <<>> /\ AllDigits(tok) /\ DigitsVal(tok) \in 0..255

IsAddress(s) ==
    LET p == Split(s, ".")
    IN  Len(p) = 4 /\ \A i \in 1..4 : IsOctetText(p[i])

Octet(s, i) == DigitsVal(Split(s, ".")[i])

\* a range of four octets each, 0 <= start_i <= end_i <= 255
WellFormedRange(item) ==
    /\ item.kind = "dict"
    /\ IsAddress(item.start)
    /\ IsAddress(item.end)
    /\ \A i \in 1..4 : Octet(item.start, i) <= Octet(item.end, i)

\* every octet of ip lies within the bounds of the range for that octet
InBox(ip, item) ==
    \A i \in 1..4 :
        Octet(item.start, i) <= Octet(ip, i) /\ Octet(ip, i) <= Octet(item.end, i)

\* an item of a list in canonical form: a well-formed range, or a single
\* address of four octets in 0..255
WellFormedItem(item) ==
    IF item.kind = "dict" THEN WellFormedRange(item)
    ELSE item.kind = "str" /\ IsAddress(item.ip)

\* the range an item stands for holds ip: a single address is the range
\* whose start and end are that address
InItem(ip, item) ==
    IF item.kind = "dict" THEN InBox(ip, item)
    ELSE \A i \in 1..4 : Octet(ip, i) = Octet(item.ip, i)

\* a number written without leading zeros
Canonical(tok) == tok # <<>> /\ AllDigits(tok) /\ (Len(tok) = 1 \/ Head(tok) # "0")

CanonicalAddress(s) ==
    IsAddress(s) /\ \A i \in 1..4 : Canonical(Split(s, ".")[i])

\* the list the matcher was called with
AskedList == ip_list[inst]

\* the matcher was asked about an address of four octets in 0..255 and a
\* list of well-formed items; where the list holds single addresses, which
\* are compared as text, the client address is written without leading
\* zeros
AskedWellFormed ==
    /\ pc = "matched"
    /\ IsAddress(client_ip)
    /\ \A k \in 1..Len(AskedList) : WellFormedItem(AskedList[k])
    /\ \/ CanonicalAddress(client_ip)
       \/ \A k \in 1..Len(AskedList) : AskedList[k].kind = "dict"

\* C1: for a client address of four octets in 0..255 and a list of
\* well-formed ranges, is_ip_match answers True exactly when some range of
\* the list holds every octet of the address within its bounds for that
\* octet, and False otherwise.
C1_BoundingBox ==
    AskedWellFormed =>
        /\ matched \in {"True", "False"}
        /\ (matched = "True") <=>
               \E k \in 1..Len(AskedList) : InItem(client_ip, AskedList[k])

\* a list of two ranges whose second, not its first, holds the address
C1_Witness_SecondRange ==
    /\ AskedWellFormed
    /\ Len(AskedList) = 2
    /\ AskedList[1].kind = "dict" /\ AskedList[2].kind = "dict"
    /\ ~InBox(client_ip, AskedList[1])
    /\ InBox(client_ip, AskedList[2])
    /\ matched = "True"

\* the lines of both cells of a row, in the order process_ips reads them
RowLines(row) == Split(row.IP_Addresses, "\n") \o Split(row.Proxy_Server, "\n")

TableRun == pc \in {"processed", "raised", "matched"}

\* C2: every range process_ips stores in a list has four octets with
\* 0 <= start_i <= end_i <= 255; what cannot be brought to that form is
\* dropped.
C2_StoredRangesValid ==
    \A r \in 1..Len(ip_list) : \A k \in 1..Len(ip_list[r]) :
        WellFormedItem(ip_list[r][k])

\* a line that parses to an item in canonical form
ValidLine(line) ==
    /\ LineFilter(line)
    /\ parse_ip(line).kind # "ValueError"
    /\ WellFormedItem(parse_ip(line))

\* C3: a parse failure is local to its line: process_ips is never ended by
\* it, and every valid line of every row still contributes its range to
\* that row's list.
C3_ParseFailureLocal ==
    TableRun =>
        /\ err = ""
        /\ Len(ip_list) = Len(insts_df)
        /\ \A r \in 1..Len(ip_list) :
              SelectSeq(ip_list[r], WellFormedItem)
                  = [k \in 1..Len(SelectSeq(RowLines(insts_df[r]), ValidLine)) |->
                        parse_ip(SelectSeq(RowLines(insts_df[r]), ValidLine)[k])]

ParsedCall == pc \in {"parsed", "reparsed"}

\* four dot-separated tokens of one to three digits each
QuadText(q) ==
    LET p == Split(q, ".")
    IN  Len(p) = 4 /\ \A i \in 1..4 : Len(p[i]) \in 1..3 /\ AllDigits(p[i])

\* two such quads with one "-" between them
TwoQuads(s) ==
    \E d \in 1..Len(s) :
        /\ s[d] = "-"
        /\ QuadText(SubSeq(s, 1, d - 1))
        /\ QuadText(SubSeq(s, d + 1, Len(s)))

DashAt(s) == CHOOSE d \in 1..Len(s) : s[d] = "-"

LeftOf(s) == SubSeq(s, 1, DashAt(s) - 1)

RightOf(s) == SubSeq(s, DashAt(s) + 1, Len(s))

\* text is four canonical octets, the i-th equal in value to quad's i-th
PairsWith(text, quad) ==
    LET p == Split(text, ".")
        q == Split(quad, ".")
    IN  /\ Len(p) = 4
        /\ \A i \in 1..4 : Canonical(p[i]) /\ DigitsVal(p[i]) = DigitsVal(q[i])

\* C4: when the cleaned specification is two dotted quads (octets of one to
\* three digits) with one "-" between them, parse_ip returns the range
\* whose start is the left address and whose end is the right address,
\* octet by octet.
C4_WholeAddressPairing ==
    (ParsedCall /\ TwoQuads(Clean(ip_str))) =>
        /\ parsed.kind = "dict"
        /\ PairsWith(parsed.start, LeftOf(Clean(ip_str)))
        /\ PairsWith(parsed.end, RightOf(Clean(ip_str)))

\* "10.0.0.1-10.0.0.5" has given start 10.0.0.1 and end 10.0.0.5
C4_Witness_Example ==
    /\ pc = "parsed"
    /\ ip_str = <<"1", "0", ".", "0", ".", "0", ".", "1", "-",
                  "1", "0", ".", "0", ".", "0", ".", "5">>
    /\ parsed = [kind |-> "dict",
                 start |-> <<"1", "0", ".", "0", ".", "0", ".", "1">>,
                 end |-> <<"1", "0", ".", "0", ".", "0", ".", "5">>]

\* some octet of the left address is greater than the same octet of the
\* right address
Inverted(s) ==
    \E i \in 1..4 : Octet(LeftOf(s), i) > Octet(RightOf(s), i)

\* C5: a whole-address range with a start octet greater than the same end
\* octet is rejected: parse_ip gives no range and no address for it.
C5_InvertedRangeRejected ==
    (ParsedCall /\ TwoQuads(Clean(ip_str)) /\ Inverted(Clean(ip_str))) =>
        parsed.kind \notin {"dict", "str"}

\* a token of the octet-wise form: a number, "*", or two numbers with one
\* "-" between them
IsNum(tok) == tok # <<>> /\ AllDigits(tok)

IsDashPair(tok) ==
    \E d \in 1..Len(tok) :
        /\ tok[d] = "-"
        /\ IsNum(SubSeq(tok, 1, d - 1))
        /\ IsNum(SubSeq(tok, d + 1, Len(tok)))

PatternToken(tok) == IsNum(tok) \/ tok = <<"*">> \/ IsDashPair(tok)

Min(m, n) == IF m <= n THEN m ELSE n

Max(m, n) == IF m <= n THEN n ELSE m

\* the bounds the claim gives a token
TokenLo(tok) ==
    IF tok = <<"*">> THEN 0
    ELSE IF IsNum(tok) THEN DigitsVal(tok)
    ELSE Min(DigitsVal(LeftOf(tok)), DigitsVal(RightOf(tok)))

TokenHi(tok) ==
    IF tok = <<"*">> THEN 255
    ELSE IF IsNum(tok) THEN DigitsVal(tok)
    ELSE Max(DigitsVal(LeftOf(tok)), DigitsVal(RightOf(tok)))

\* the cleaned text is in the octet-wise form and each token is of a
\* known shape
OctetWiseForm(s) ==
    /\ ~TwoQuads(s)
    /\ Contains(s, "-") \/ Contains(s, "*")
    /\ \A i \in 1..Len(Split(s, ".")) : PatternToken(Split(s, ".")[i])

\* text has as many canonical numbers as toks has tokens, the i-th being
\* the bound Bound(toks[i])
BoundsAre(text, toks, lo) ==
    LET p == Split(text, ".")
    IN  /\ Len(p) = Len(toks)
        /\ \A i \in 1..Len(p) :
              /\ Canonical(p[i])
              /\ DigitsVal(p[i]) = IF lo THEN TokenLo(toks[i]) ELSE TokenHi(toks[i])

\* C6: in the octet-wise form each token is classified on its own: n gives
\* start_i = end_i = n, "*" gives 0 and 255, "m-n" gives min(m,n) and
\* max(m,n) in whichever order m and n were written.
C6_OctetTokens ==
    (ParsedCall /\ OctetWiseForm(Clean(ip_str))) =>
        /\ parsed.kind = "dict"
        /\ BoundsAre(parsed.start, Split(Clean(ip_str), "."), TRUE)
        /\ BoundsAre(parsed.end, Split(Clean(ip_str), "."), FALSE)

\* the addresses an item holds
ItemTexts(item) ==
    IF item.kind = "dict" THEN {item.start, item.end}
    ELSE IF item.kind = "str" THEN {item.ip}
    ELSE {}

\* C7: a cleaned specification of the octet-wise or the single-address
\* form that does not split on "." into exactly four tokens is a parse
\* error: parse_ip gives no address and no range for it, and no list ever
\* holds an address of other than four octets.
C7_FourTokens ==
    /\ (ParsedCall /\ ~TwoQuads(Clean(ip_str))
            /\ Len(Split(Clean(ip_str), ".")) # 4) =>
           parsed.kind \notin {"dict", "str"}
    /\ \A r \in 1..Len(ip_list) : \A k \in 1..Len(ip_list[r]) :
           \A a \in ItemTexts(ip_list[r][k]) : Len(Split(a, ".")) = 4

\* the line begins with the marker of the IPv6 family
IPv6Marker == <<"I", "P", "v", "6">>

BeginsWithMarker(line) ==
    LET t == Strip(line)
    IN  Len(t) >= 4 /\ SubSeq(t, 1, 4) = IPv6Marker

NoMarker(line) == ~BeginsWithMarker(line)

\* the cells of a row without the lines that begin with the marker
CellWithoutMarkers(cell) == Join(SelectSeq(Split(cell, "\n"), NoMarker), "\n")

\* a line that begins with the marker adds nothing to its row's list: the
\* list is the one the row gives with those lines taken out
MarkerLinesAddNothing ==
    (pc = "processed") =>
        \A r \in 1..Len(ip_list) :
            ip_list[r] =
                ProcessCell(CellWithoutMarkers(insts_df[r].IP_Addresses)).items
                \o ProcessCell(CellWithoutMarkers(insts_df[r].Proxy_Server)).items

C9_Idempotent ==
    /\ ParsedCall /\ parsed.kind # "ValueError" =>
           \A a \in ItemTexts(parsed) :
               \A i \in 1..Len(Split(a, ".")) : Canonical(Split(a, ".")[i])
    /\ pc = "reparsed" => reparsed = parsed

\* no line of the row is a valid line
AllMalformed(row) ==
    \A i \in 1..Len(RowLines(row)) : ~ValidLine(RowLines(row)[i])

\* C10: a row whose cells are empty, or hold malformed lines only, gets an
\* empty list and process_ips raises nothing; the matcher answers False
\* for every client address asked against that list.
C10_EmptyListMatchesNothing ==
    \A r \in 1..Len(insts_df) :
        (TableRun /\ AllMalformed(insts_df[r])) =>
            /\ err = ""
            /\ r <= Len(ip_list) /\ ip_list[r] = <<>>
            /\ (pc = "matched" /\ inst = r) => matched = "False"

\* C11: for a client address that has fewer or more than four components,
\* or a component that is not an integer in 0..255, is_ip_match answers
\* False against every list: it neither reports a match nor raises.
C11_MalformedClientFailsClosed ==
    (pc = "matched" /\ ~IsAddress(client_ip)) => matched = "False"

\* the line holds a digit somewhere
HasDigit(line) == \E i \in 1..Len(line) : IsDigit(line[i])

\* the first character of the line that is not whitespace is a digit
FirstIsDigit(line) ==
    \E i \in 1..Len(line) :
        IsDigit(line[i]) /\ \A j \in 1..(i - 1) : IsSpace(line[j])

\* a line with annotation text before its first digit
Annotated(line) == HasDigit(line) /\ ~FirstIsDigit(line)

\* what parse_ip gives for each of the lines, in order
Parses(lines) == [k \in 1..Len(lines) |-> parse_ip(lines[k])]

Reordered(list, p) == List([i \in 1..Len(list) |-> list[p[i]]])

\* C14: the outcome of is_ip_match does not depend on the order of the
\* entries: every permutation of the list the matcher was asked with gives
\* the same outcome, True, False or the same failure.
C14_OrderIndependent ==
    (pc = "matched") =>
        \A p \in Permutations(1..Len(AskedList)) :
            is_ip_match(client_ip, Reordered(AskedList, p)) = matched

\* C15: a single address is matched as the range whose start and end are
\* that address: against a list of one single address, is_ip_match gives
\* what is_ip_in_range gives for that range, for every client address of
\* four octets in 0..255, those written with leading zeros included.
C15_SingleAsDegenerateRange ==
    (pc = "matched" /\ IsAddress(client_ip)
        /\ Len(AskedList) = 1 /\ AskedList[1].kind = "str") =>
        matched = is_ip_in_range(client_ip, AskedList[1].ip, AskedList[1].ip)

\* the two texts are equal when letter case is ignored
EqualsIgnoringCase(a, b) == Lower(a) = Lower(b)

\* the rows whose full name or abbreviation is the name asked for
NamedRows(df, name) ==
    SelectSeq(df, LAMBDA row :
        \/ EqualsIgnoringCase(name, row.Institution)
        \/ EqualsIgnoringCase(name, row.Abbreviation))

\* C12: the lookup selects a row exactly when the name asked for equals,
\* letter case ignored, the row's full name or its abbreviation; when no
\* row does, the caller gets False and no exception is raised.
C12_LookupByNameOrAbbreviation ==
    (pc \in {"checked", "counted"}) =>
        /\ inst_ips = NamedRows(ips_df, inst_name)
        /\ found = IF NamedRows(ips_df, inst_name) = <<>> THEN "False" ELSE "True"

\* the rows handed in so far for the month and day of row r
SubmittedFor(r) == {s \in submitted : SameDay(s, r)}

\* C16: after any sequence of update_file calls the sheet holds at most one
\* row for a month and day, every row it holds is one that was handed in,
\* and for each month and day handed in the row kept has the greatest
\* Total of the rows handed in for it, in whatever order they came.
C16_SheetKeepsGreatestTotal ==
    (pc = "report" /\ sheet.exists) =>
        /\ \A i, j \in 1..Len(sheet.rows) :
               SameDay(sheet.rows[i], sheet.rows[j]) => i = j
        /\ \A i \in 1..Len(sheet.rows) : sheet.rows[i] \in submitted
        /\ \A r \in submitted :
               \E i \in 1..Len(sheet.rows) :
                   /\ SameDay(sheet.rows[i], r)
                   /\ \A s \in SubmittedFor(r) : s.Total <= sheet.rows[i].Total

\* two days are in the sheet, and for one of them rows of different totals
\* were handed in
C16_Witness_TwoTotalsForOneDay ==
    /\ pc = "report" /\ sheet.exists
    /\ Len(sheet.rows) >= 2
    /\ \E r \in submitted : \E s \in SubmittedFor(r) : s.Total < r.Total

====
